---- MODULE Spec2Model ----
(***************************************************************************)
(* ludoj-scraper: the chained enrichment requests of the Board Game Atlas  *)
(* spider (ludoj_scraper/spiders/bga.py), the typed item engine            *)
(* (ludoj/items.py) and the numeric import pipelines of its fields.        *)
(*                                                                         *)
(* Python objects that are shared by reference (the GameItem built in      *)
(* parse, the list of pending requests) live in two heaps, items and       *)
(* lists; a reference is an index into its heap, 0 is None.                *)
(***************************************************************************)
EXTENDS Integers, Sequences, FiniteSets, TLC

\* ------------------------------------------------------------------ bounds
\* games on the one search page the model parses
MaxGames == 2

\* assignments made to one item
MaxAssigns == 2

\* entries of a mapping handed to TypedItem.parse or TypedItem.clean
MaxRawKeys == 2

\* add_value / add_jmes calls a loader receives for one scalar field
MaxCalls == 4

\* job directories found in the jobs directory when the first invocation starts
MaxJobs == 2

\* invocations of main
MaxInvocations == 2

\* ------------------------------------------------------------ chain: state
VARIABLES
    mode,        \* "crawl": scrapy crawl bga; "check": scrapy check bga (contracts)
    settings,    \* BGA_SCRAPE_IMAGES / _VIDEOS / _REVIEWS as read in __init__
    parsed,      \* the search page has been handed to parse
    items,       \* heap of GameItem objects
    lists,       \* heap of pending-request lists (the game_requests objects)
    scheduled,   \* requests handed to the scheduler and not yet answered
    output,      \* items returned by the callbacks, in order
    exported,    \* the returned items the item pipeline let through, in order
    dropped,     \* the returned items the item pipeline dropped and reported, in order
    built,       \* per item: the queue as parse built it
    trace        \* per item: issue / deliver / emit events, in order

chainVars ==
    <<mode, settings, parsed, items, lists, scheduled, output, exported, dropped, built, trace>>

\* ------------------------------------------------------- typed item: state
VARIABLES
    op,          \* the last call: "new", "assign", "parse", "clean", "reclean"
    article,     \* the item the call worked on or returned
    status,      \* "ok", or the exception the call raised
    given,       \* the call's input: the key and value assigned, the mapping parsed
    prior,       \* article before the call
    steps,       \* assignments made
    sound        \* no assignment has raised so far

itemVars == <<op, article, status, given, prior, steps, sound>>

\* ------------------------------------------------- import pipelines: state
VARIABLES
    today,       \* date.today().year when items.py was imported
    pipeline,    \* the input processor last run
    candidate,   \* the value it was run on
    normalized   \* the values it returned

normVars == <<today, pipeline, candidate, normalized>>

\* ------------------------------------------------ loader, one scalar field
VARIABLES
    calls,       \* the candidates of the add_value / add_jmes calls, in call order
    collected,   \* the loader's values: per field, the normalized candidates
    finalized,   \* load_item has run
    field_value  \* the field of the loaded item: <<>> while unset, else <<value>>

loadVars == <<calls, collected, finalized, field_value>>

\* ------------------------------------------------------------ main: state
VARIABLES
    jobs,        \* the jobs directory: per sub-directory (its tag) what its state file says
    clock,       \* now(), in seconds
    pc,          \* per invocation of main: "start", "found" (_find_states returned), "done"
    met,         \* per invocation: the jobs directory as its _find_states met it
    states,      \* per invocation: what _find_states returned
    launches     \* per invocation: the JOBDIR tags of the crawls it executed, in order

mainVars == <<jobs, clock, pc, met, states, launches>>

NoRef == 0

Callbacks == {"parse_images", "parse_videos", "parse_reviews"}

BgaIds == {"g1", "g2"}

\* A game of the search result: its id, its name and its image_url ("" when the key
\* is absent): named games with and without an image, and one game without a name.
Games ==
    [id : BgaIds, name : {"n1"}, image_url : {"", "i1"}]
    \cup {[id |-> "g2", name |-> "", image_url |-> "i1"]}

RECURSIVE SeqsUpTo(_, _)
SeqsUpTo(S, n) ==
    IF n = 0 THEN {<<>>}
    ELSE LET shorter == SeqsUpTo(S, n - 1)
         IN  shorter \cup {Append(s, x) : s \in {t \in shorter : Len(t) = n - 1}, x \in S}

Pages == SeqsUpTo(Games, MaxGames) \ {<<>>}

Entry(u, t) == [url |-> u, thumb |-> t]

\* The parsed JSON document of an enrichment response; {} is EmptyJson.
EmptyJson == [images |-> <<>>, videos |-> <<>>, reviews |-> <<>>]

\* A document with repeated values, one of them (i1) also found on the search page
Json1 ==
    [images  |-> <<Entry("i2", "i1"), Entry("i2", "i3")>>,
     videos  |-> <<Entry("v1", ""), Entry("v2", ""), Entry("v1", "")>>,
     reviews |-> <<Entry("r1", "")>>]

Bodies == {Json1}

EmptyMeta == <<>>

\* What the scheduler hands to a callback: a Response (it has .text and .meta) or,
\* through the errback, a Failure (it has neither; Scrapy sets .request on both).
\* parsed is whether parse_json(response.text) yields a document, json that document.
OkResponse(json, meta) ==
    [kind |-> "response", parsed |-> TRUE, json |-> json, request |-> [meta |-> meta]]

GarbledResponse(meta) ==
    [kind |-> "response", parsed |-> FALSE, json |-> EmptyJson, request |-> [meta |-> meta]]

Failure(meta) ==
    [kind |-> "failure", parsed |-> FALSE, json |-> EmptyJson, request |-> [meta |-> meta]]

Answers(meta) ==
    {OkResponse(j, meta) : j \in Bodies} \cup {GarbledResponse(meta), Failure(meta)}

\* --------------------------------------------------------- chain: helpers
\* hasattr(response, name): a Response has text, meta (its request's meta) and
\* request; a Failure has only the request Scrapy attaches before calling the errback.
HasAttr(response, name) ==
    IF response.kind = "response" THEN name \in {"text", "meta", "request"}
    ELSE name \in {"request"}

_json_from_response(response) ==
    IF HasAttr(response, "text") /\ response.parsed THEN response.json ELSE EmptyJson

\* as _extract_meta, without the fallback to the request's meta
_extract_meta_no_fallback(response) ==
    IF HasAttr(response, "meta") /\ DOMAIN response.request.meta # {}
    THEN response.request.meta
    ELSE EmptyMeta

_extract_meta(response) ==
    IF HasAttr(response, "meta") /\ DOMAIN response.request.meta # {}
    THEN response.request.meta
    ELSE IF HasAttr(response, "request") THEN response.request.meta
    ELSE EmptyMeta

MetaGet(meta, key) == IF key \in DOMAIN meta THEN meta[key] ELSE NoRef

\* as _extract_item, always starting from a fresh item_cls()
_extract_item_fresh(item, response, heap) == NoRef

\* The reference of the item to work on; NoRef stands for a fresh item_cls().
_extract_item(item, response, heap) ==
    IF item # NoRef /\ DOMAIN heap[item] # {} THEN item
    ELSE MetaGet(_extract_meta(response), "item")

\* as _extract_requests, reading a key the meta does not hold
_extract_requests_wrong_key(response) == MetaGet(_extract_meta(response), "requests")

_extract_requests(response) == MetaGet(_extract_meta(response), "game_requests")

Url(path, bga_id) == [path |-> path, game_id |-> bga_id]

\* as _game_requests, asking for the reviews before the videos
_game_requests_reviews_first(bga_id) ==
    (IF settings.scrape_images
     THEN <<[url |-> Url("game/images", bga_id), callback |-> "parse_images"]>> ELSE <<>>)
    \o (IF settings.scrape_reviews
        THEN <<[url |-> Url("game/reviews", bga_id), callback |-> "parse_reviews"]>> ELSE <<>>)
    \o (IF settings.scrape_videos
        THEN <<[url |-> Url("game/videos", bga_id), callback |-> "parse_videos"]>> ELSE <<>>)

\* as _game_requests, with every URL built for the first game of the page
_game_requests_first_id(bga_id) ==
    (IF settings.scrape_images
     THEN <<[url |-> Url("game/images", "g1"), callback |-> "parse_images"]>> ELSE <<>>)
    \o (IF settings.scrape_videos
        THEN <<[url |-> Url("game/videos", "g1"), callback |-> "parse_videos"]>> ELSE <<>>)
    \o (IF settings.scrape_reviews
        THEN <<[url |-> Url("game/reviews", "g1"), callback |-> "parse_reviews"]>> ELSE <<>>)

_game_requests(bga_id) ==
    (IF settings.scrape_images
     THEN <<[url |-> Url("game/images", bga_id), callback |-> "parse_images"]>> ELSE <<>>)
    \o (IF settings.scrape_videos
        THEN <<[url |-> Url("game/videos", bga_id), callback |-> "parse_videos"]>> ELSE <<>>)
    \o (IF settings.scrape_reviews
        THEN <<[url |-> Url("game/reviews", bga_id), callback |-> "parse_reviews"]>> ELSE <<>>)

\* as _next_request_or_item, popping the last element of the list
_next_request_or_item_pop_last(item, requests, queues) ==
    IF requests = NoRef \/ queues[requests] = <<>>
    THEN [kind |-> "item", item |-> item, queues |-> queues]
    ELSE LET n == Len(queues[requests])
         IN  [kind    |-> "request",
              item    |-> item,
              request |-> [url      |-> queues[requests][n].url,
                           callback |-> queues[requests][n].callback,
                           item     |-> item,
                           meta     |-> ("item" :> item) @@ ("game_requests" :> requests)],
              queues  |-> [queues EXCEPT ![requests] = SubSeq(@, 1, n - 1)]]

\* as _next_request_or_item, handing on a copy of the rest of the list
\* (meta={'game_requests': requests[1:]}) and leaving the list itself unpopped
_next_request_or_item_copy(item, requests, queues) ==
    IF requests = NoRef \/ queues[requests] = <<>>
    THEN [kind |-> "item", item |-> item, queues |-> queues]
    ELSE [kind    |-> "request",
          item    |-> item,
          request |-> [url      |-> Head(queues[requests]).url,
                       callback |-> Head(queues[requests]).callback,
                       item     |-> item,
                       meta     |-> ("item" :> item)
                                    @@ ("game_requests" :> Len(queues) + 1)],
          queues  |-> Append(queues, Tail(queues[requests]))]

\* The item itself, or the Request for the head of the list, which is popped:
\* queues is the heap of lists after the call.
_next_request_or_item(item, requests, queues) ==
    IF requests = NoRef \/ queues[requests] = <<>>
    THEN [kind |-> "item", item |-> item, queues |-> queues]
    ELSE [kind    |-> "request",
          item    |-> item,
          request |-> [url      |-> Head(queues[requests]).url,
                       callback |-> Head(queues[requests]).callback,
                       item     |-> item,
                       meta     |-> ("item" :> item) @@ ("game_requests" :> requests)],
          queues  |-> [queues EXCEPT ![requests] = Tail(@)]]

\* ---------------------------------------------------------- chain: loader
\* GameJsonLoader: candidates are collected per field and written by load_item.
\* item.get(field) of an unset field is None; add_value(field, None) and
\* add_value(field, []) both add nothing, so both read as no candidates here.
ItemGet(item, field) == IF field \in DOMAIN item THEN item[field] ELSE <<>>

NoValues == <<>>

add_value(values, field, value) ==
    IF value = <<>> THEN values
    ELSE IF field \in DOMAIN values
         THEN [values EXCEPT ![field] = @ \o value]
         ELSE values @@ (field :> value)

RECURSIVE Project(_, _)
\* entries[].key: the key's value of every entry that has one
Project(entries, key) ==
    IF entries = <<>> THEN <<>>
    ELSE (IF Head(entries)[key] = "" THEN <<>> ELSE <<Head(entries)[key]>>)
         \o Project(Tail(entries), key)

\* The JMESPath queries the callbacks use
get_jmes(json, path) ==
    CASE path = "images[].url"   -> Project(json.images, "url")
      [] path = "images[].thumb" -> Project(json.images, "thumb")
      [] path = "videos[].url"   -> Project(json.videos, "url")
      [] path = "reviews[].url"  -> Project(json.reviews, "url")

add_jmes(values, field, json, path) == add_value(values, field, get_jmes(json, path))

Range(s) == {s[i] : i \in 1..Len(s)}

RECURSIVE clear_list(_)
\* the values without duplicates, the first occurrence of each kept
clear_list(s) ==
    IF s = <<>> THEN <<>>
    ELSE LET front == clear_list(SubSeq(s, 1, Len(s) - 1))
             last  == s[Len(s)]
         IN  IF last \in Range(front) THEN front ELSE Append(front, last)

\* the fields whose output processor is clear_list
ListFields == {"image_url", "video_url", "review_url"}

\* the output processor of the field on its candidates: clear_list for a list
\* field, else the first candidate (none of them is None or '', see add_value)
get_output_value(values, field) ==
    IF field \in ListFields THEN clear_list(values[field]) ELSE Head(values[field])

\* every field with candidates is written with its output processor's result
load_item(values, item) ==
    [f \in DOMAIN item \cup DOMAIN values |->
        IF f \in DOMAIN values THEN get_output_value(values, f) ELSE item[f]]

\* ------------------------------------------------- chain: item pipeline
\* The project's item pipeline sees every item a callback returns, as soon as it
\* is returned; it raises DropItem for an item that lacks a required field.
RequiredFields == {"name"}

\* as process_item, with no field required
process_item_unchecked(item) == "item"

process_item(item) ==
    IF \A f \in RequiredFields : f \in DOMAIN item THEN "item" ELSE "DropItem"

\* the entries of after that follow those of before and that the pipeline answers
\* with verdict, appended to seen
Piped(seen, before, after, verdict) ==
    seen \o SelectSeq(SubSeq(after, Len(before) + 1, Len(after)),
                      LAMBDA e : process_item(e.item) = verdict)

\* ------------------------------------------------------- chain: callbacks
\* A callback's outcome: the heap of items after it, what it returned (ret, with the
\* heap of lists after it), the item it worked on and what it took from the response.
Outcome(ref, heap, got, ret) == [ref |-> ref, items |-> heap, got |-> got, ret |-> ret]

\* The common shape of parse_images, parse_videos and parse_reviews: the item's own
\* values of the field first, then the values at each path of the response.
RECURSIVE AddPaths(_, _, _, _)
AddPaths(values, field, json, paths) ==
    IF paths = <<>> THEN values
    ELSE AddPaths(add_jmes(values, field, json, Head(paths)), field, json, Tail(paths))

\* as the callbacks, returning the item at once when the response gave no document
Enrich_stop_when_empty(field, paths, response, item) ==
    LET found  == _extract_item(item, response, items)
        ref    == IF found = NoRef THEN Len(items) + 1 ELSE found
        heap   == IF found = NoRef THEN Append(items, <<>>) ELSE items
        result == _json_from_response(response)
        own    == add_value(NoValues, field, ItemGet(heap[ref], field))
        values == AddPaths(own, field, result, paths)
        loaded == load_item(values, heap[ref])
        requests == IF result = EmptyJson THEN NoRef ELSE _extract_requests(response)
    IN  Outcome(ref, [heap EXCEPT ![ref] = loaded],
                ItemGet(AddPaths(NoValues, field, result, paths), field),
                _next_request_or_item(ref, requests, lists))

\* as the callbacks, but the values of the response are added before the item's own
Enrich_response_first(field, paths, response, item) ==
    LET found  == _extract_item(item, response, items)
        ref    == IF found = NoRef THEN Len(items) + 1 ELSE found
        heap   == IF found = NoRef THEN Append(items, <<>>) ELSE items
        result == _json_from_response(response)
        taken  == AddPaths(NoValues, field, result, paths)
        values == add_value(taken, field, ItemGet(heap[ref], field))
        loaded == load_item(values, heap[ref])
        requests == _extract_requests(response)
    IN  Outcome(ref, [heap EXCEPT ![ref] = loaded],
                ItemGet(taken, field),
                _next_request_or_item(ref, requests, lists))

Enrich(field, paths, response, item) ==
    LET found  == _extract_item(item, response, items)
        ref    == IF found = NoRef THEN Len(items) + 1 ELSE found
        heap   == IF found = NoRef THEN Append(items, <<>>) ELSE items
        result == _json_from_response(response)
        own    == add_value(NoValues, field, ItemGet(heap[ref], field))
        values == AddPaths(own, field, result, paths)
        loaded == load_item(values, heap[ref])
        requests == _extract_requests(response)
    IN  Outcome(ref, [heap EXCEPT ![ref] = loaded],
                ItemGet(AddPaths(NoValues, field, result, paths), field),
                _next_request_or_item(ref, requests, lists))

parse_images(response, item) ==
    Enrich("image_url", <<"images[].url", "images[].thumb">>, response, item)

parse_videos(response, item) ==
    Enrich("video_url", <<"videos[].url">>, response, item)

parse_reviews(response, item) ==
    Enrich("review_url", <<"reviews[].url">>, response, item)

Call(callback, response, item) ==
    CASE callback = "parse_images"  -> parse_images(response, item)
      [] callback = "parse_videos"  -> parse_videos(response, item)
      [] callback = "parse_reviews" -> parse_reviews(response, item)

\* ------------------------------------------------------- chain: actions
NoUrl == Url("", "")

\* An entry of a chain's trace: the call of a handler (parse, response, error,
\* contract; got is what it took from its document) or what it returned (issue, emit).
Event(ev, callback, url, got) == [ev |-> ev, callback |-> callback, url |-> url, got |-> got]

Returned(ret) ==
    IF ret.kind = "request"
    THEN Event("issue", ret.request.callback, ret.request.url, <<>>)
    ELSE Event("emit", "", NoUrl, <<>>)

\* What the engine does with a callback's return value: a Request goes to the
\* scheduler (chain records which game's chain it continues), an item to the output.
Schedule(pending, ret, chain) ==
    IF ret.kind = "request"
    THEN pending \cup {[url      |-> ret.request.url,
                        callback |-> ret.request.callback,
                        item     |-> ret.request.item,
                        meta     |-> ret.request.meta,
                        chain    |-> chain]}
    ELSE pending

Emit(out, heap, ret, chain) ==
    IF ret.kind = "item"
    THEN Append(out, [chain |-> chain, ref |-> ret.item, item |-> heap[ret.item]])
    ELSE out

\* as ParseGame, with the one list of pending requests created before the loop over
\* the games and extended for each game
ParseGame_shared_queue(game, st) ==
    LET bga_id  == game.id
        fresh   == ("bga_id" :> bga_id)
        name    == IF game.name = "" THEN <<>> ELSE <<game.name>>
        found   == IF game.image_url = "" THEN <<>> ELSE <<game.image_url>>
        item    == load_item(add_value(add_value(NoValues, "name", name),
                                       "image_url", found), fresh)
        ref     == Len(st.items) + 1
        heap    == Append(st.items, item)
        queue   == _game_requests(bga_id)
        shared  == IF st.lists = <<>> THEN <<queue>> ELSE [st.lists EXCEPT ![1] = @ \o queue]
        ret     == _next_request_or_item(ref, 1, shared)
        chain   == Len(st.trace) + 1
    IN  [items     |-> heap,
         lists     |-> ret.queues,
         scheduled |-> Schedule(st.scheduled, ret, chain),
         output    |-> Emit(st.output, heap, ret, chain),
         built     |-> Append(st.built, queue),
         trace     |-> Append(st.trace,
                              <<Event("parse", "parse", NoUrl, found), Returned(ret)>>)]

\* parse, for one game of the page, from the state st left by the games before it
ParseGame(game, st) ==
    LET bga_id  == game.id
        fresh   == ("bga_id" :> bga_id)
        name    == IF game.name = "" THEN <<>> ELSE <<game.name>>
        found   == IF game.image_url = "" THEN <<>> ELSE <<game.image_url>>
        item    == load_item(add_value(add_value(NoValues, "name", name),
                                       "image_url", found), fresh)
        ref     == Len(st.items) + 1
        heap    == Append(st.items, item)
        queue   == _game_requests(bga_id)
        reqref  == Len(st.lists) + 1
        ret     == _next_request_or_item(ref, reqref, Append(st.lists, queue))
        chain   == Len(st.trace) + 1
    IN  [items     |-> heap,
         lists     |-> ret.queues,
         scheduled |-> Schedule(st.scheduled, ret, chain),
         output    |-> Emit(st.output, heap, ret, chain),
         built     |-> Append(st.built, queue),
         trace     |-> Append(st.trace,
                              <<Event("parse", "parse", NoUrl, found), Returned(ret)>>)]

RECURSIVE ParseGames(_, _)
ParseGames(games, st) ==
    IF games = <<>> THEN st
    ELSE ParseGames(Tail(games), ParseGame(Head(games), st))

\* parse(response) for the search page: one item or request per game
Parse(page) ==
    /\ mode = "crawl"
    /\ ~parsed
    /\ LET st == ParseGames(page,
                   [items |-> items, lists |-> lists, scheduled |-> scheduled,
                    output |-> output, built |-> built, trace |-> trace])
       IN  /\ items' = st.items
           /\ lists' = st.lists
           /\ scheduled' = st.scheduled
           /\ output' = st.output
           /\ exported' = Piped(exported, output, st.output, "item")
           /\ dropped' = Piped(dropped, output, st.output, "DropItem")
           /\ built' = st.built
           /\ trace' = st.trace
    /\ parsed' = TRUE
    /\ UNCHANGED <<mode, settings, itemVars, normVars, loadVars, mainVars>>

\* The effect of one call of an enrichment callback whose outcome is out, as the
\* step named by call of the given chain
Commit(out, pending, chain, call) ==
    /\ items' = out.items
    /\ lists' = out.ret.queues
    /\ scheduled' = Schedule(pending, out.ret, chain)
    /\ output' = Emit(output, out.items, out.ret, chain)
    /\ exported' = Piped(exported, output, output', "item")
    /\ dropped' = Piped(dropped, output, output', "DropItem")
    /\ built' = IF chain > Len(built) THEN Append(built, <<>>) ELSE built
    /\ trace' = IF chain > Len(trace)
                THEN Append(trace, <<call, Returned(out.ret)>>)
                ELSE [trace EXCEPT ![chain] = @ \o <<call, Returned(out.ret)>>]

\* The scheduler answers a request: its callback runs on the response, or, as the
\* errback, on the failure; either way with the item bound by partial().
Deliver(req, answer) ==
    /\ req \in scheduled
    /\ LET out == Call(req.callback, answer, req.item)
       IN  Commit(out, scheduled \ {req}, req.chain,
                  Event(IF answer.kind = "failure" THEN "error" ELSE "response",
                        req.callback, req.url, out.got))
    /\ UNCHANGED <<mode, settings, parsed, itemVars, normVars, loadVars, mainVars>>

DeliverResponse ==
    \E req \in scheduled :
        \E answer \in {OkResponse(j, req.meta) : j \in Bodies} \cup {GarbledResponse(req.meta)} :
            Deliver(req, answer)

DeliverFailure == \E req \in scheduled : Deliver(req, Failure(req.meta))

\* scrapy check: a callback's contract runs it, without an item, on a response
\* that carries no meta
Ran(callback) ==
    \E c \in 1..Len(trace) : trace[c][1].ev = "contract" /\ trace[c][1].callback = callback

Contract(callback, answer) ==
    /\ mode = "check"
    /\ ~Ran(callback)
    /\ LET out == Call(callback, answer, NoRef)
       IN  Commit(out, scheduled, Len(trace) + 1,
                  Event("contract", callback, NoUrl, out.got))
    /\ UNCHANGED <<mode, settings, parsed, itemVars, normVars, loadVars, mainVars>>

RunContract ==
    \E callback \in Callbacks :
        \E answer \in {OkResponse(j, EmptyMeta) : j \in Bodies} \cup {GarbledResponse(EmptyMeta)} :
            Contract(callback, answer)

\* ============================================================ typed items
\* ----------------------------------------------------------- item: values
\* A Python value: its type t and a payload n (the number; 1/0 for True/False; the
\* length of a list; the instant of a datetime). Floats are kept to whole numbers.
\* For a str, k says what the text reads as: nothing ("empty"), a word, an integer
\* ("int") or decimal ("dec") literal of value n, an integer literal inside markup
\* ("markup"), a boolean token ("true", "false"), a JSON array of n elements
\* ("json"), a date ("date").
Val(t, k, n) == [t |-> t, k |-> k, n |-> n]

None == Val("NoneType", "", 0)

PyInt(n) == Val("int", "", n)

PyFloat(n) == Val("float", "", n)

PyBool(b) == Val("bool", "", IF b THEN 1 ELSE 0)

PyList(n) == Val("list", "", n)

PyDatetime(n) == Val("datetime", "", n)

Text(kind, n) == Val("str", kind, n)

EmptyStr == Text("empty", 0)

\* isinstance(value, dtype); bool is a subclass of int
IsInstance(value, dtype) ==
    \/ value.t = dtype
    \/ (dtype = "int" /\ value.t = "bool")

\* bool(value)
Truthy(value) ==
    CASE value.t = "NoneType" -> FALSE
      [] value.t = "str"      -> value.k # "empty"
      [] value.t = "datetime" -> TRUE
      [] OTHER                -> value.n # 0

\* ------------------------------------------------- item: utils (converters)
parse_int(value) ==
    CASE value.t \in {"int", "bool", "float"} -> PyInt(value.n)
      [] value.t = "str" /\ value.k = "int"   -> PyInt(value.n)
      [] OTHER -> None

parse_float(value) ==
    CASE value.t \in {"int", "bool", "float"}        -> PyFloat(value.n)
      [] value.t = "str" /\ value.k \in {"int", "dec"} -> PyFloat(value.n)
      [] OTHER -> None

parse_bool(value) ==
    CASE value.t = "bool" -> value
      [] value.t = "int" /\ value.n \in {0, 1}  -> PyBool(value.n = 1)
      [] value.t = "str" /\ value.k = "true"    -> PyBool(TRUE)
      [] value.t = "str" /\ value.k = "false"   -> PyBool(FALSE)
      [] value.t = "str" /\ value.k = "int" /\ value.n \in {0, 1} -> PyBool(value.n = 1)
      [] OTHER -> None

parse_json(value) ==
    IF value.t = "str" /\ value.k = "json" THEN PyList(value.n) ELSE None

parse_date(value) ==
    CASE value.t = "datetime" -> value
      [] value.t = "str" /\ value.k = "date" -> PyDatetime(value.n)
      [] OTHER -> None

IDENTITY(value) == value

\* ----------------------------------------------------------- item: fields
\* GameItem's declarations, one field of each shape: dtype, required,
\* dtype_convert and parser ("" where the Field gives none).
Field(dtype, required, convert, parser) ==
    [dtype |-> dtype, required |-> required, dtype_convert |-> convert, parser |-> parser]

fields ==
    [name         |-> Field("str", TRUE, "", ""),
     alt_name     |-> Field("list", FALSE, "", "parse_json"),
     year         |-> Field("int", FALSE, "parse_int", ""),
     avg_rating   |-> Field("float", FALSE, "parse_float", ""),
     cooperative  |-> Field("bool", FALSE, "", "parse_bool"),
     scraped_at   |-> Field("datetime", TRUE, "", "parse_date")]

\* cls.fields.items(): Scrapy's ItemMeta collects the fields from dir(cls), by name
FieldOrder == <<"alt_name", "avg_rating", "cooperative", "name", "scraped_at", "year">>

Declared == DOMAIN fields

\* the callable a Field names
Apply(fn, value) ==
    CASE fn = "parse_int"   -> parse_int(value)
      [] fn = "parse_float" -> parse_float(value)
      [] fn = "parse_bool"  -> parse_bool(value)
      [] fn = "parse_json"  -> parse_json(value)
      [] fn = "parse_date"  -> parse_date(value)
      [] fn = ""            -> IDENTITY(value)

\* as _serialize_bool, written `int(item) if item else None`
_serialize_bool_truthy(item) == IF Truthy(item) THEN PyInt(item.n) ELSE None

\* _serialize_bool: 1 or 0 for a bool, None for anything else
_serialize_bool(item) == IF item.t = "bool" THEN PyInt(item.n) ELSE None

\* --------------------------------------------------- item: TypedItem
\* An item is the mapping of the fields that are set. A call ends "ok" or with the
\* exception it raised; item is the item as the call left it.
Done(item, outcome) == [item |-> item, status |-> outcome]

Store(item, key, value) ==
    IF key \in DOMAIN item THEN [item EXCEPT ![key] = value] ELSE item @@ (key :> value)

\* as TypedItem.__setitem__, but a value of the wrong type is kept where the field
\* has no converter
TypedItem_setitem_no_raise(item, key, value) ==
    IF key \notin Declared THEN Done(item, "KeyError")
    ELSE LET stored  == Store(item, key, value)
             dtype   == fields[key].dtype
             convert == fields[key].dtype_convert
         IN  IF value = None \/ IsInstance(value, dtype) \/ convert = "" THEN Done(stored, "ok")
             ELSE LET converted == Apply(convert, value)
                  IN  IF ~(IsInstance(converted, dtype) \/ converted = None)
                      THEN Done(stored, "AssertionError")
                      ELSE Done(Store(stored, key, converted), "ok")

\* TypedItem.__setitem__
TypedItem_setitem(item, key, value) ==
    IF key \notin Declared THEN Done(item, "KeyError")
    ELSE LET stored  == Store(item, key, value)
             dtype   == fields[key].dtype
             convert == fields[key].dtype_convert
         IN  IF value = None \/ IsInstance(value, dtype) THEN Done(stored, "ok")
             ELSE IF convert = "" THEN Done(stored, "ValueError")
             ELSE LET converted == Apply(convert, value)
                  IN  IF ~(IsInstance(converted, dtype) \/ converted = None)
                      THEN Done(stored, "AssertionError")
                      ELSE Done(Store(stored, key, converted), "ok")

\* item.get(key) of a dict-like input
RawGet(raw, key) == IF key \in DOMAIN raw THEN raw[key] ELSE None

NoItem == <<>>

RECURSIVE ParseFields(_, _, _)
\* the loop of TypedItem.parse over the fields still to do
ParseFields(todo, raw, item) ==
    IF todo = <<>> THEN Done(item, "ok")
    ELSE LET key   == Head(todo)
             value == RawGet(raw, key)
         IN  IF value = None \/ value = EmptyStr
             THEN ParseFields(Tail(todo), raw, item)
             ELSE LET first == TypedItem_setitem(item, key, value)
                  IN  IF first.status = "ok" THEN ParseFields(Tail(todo), raw, first.item)
                      ELSE IF first.status # "ValueError" THEN Done(NoItem, first.status)
                      ELSE LET retry == TypedItem_setitem(first.item, key,
                                                          Apply(fields[key].parser, value))
                           IN  IF retry.status = "ok"
                               THEN ParseFields(Tail(todo), raw, retry.item)
                               ELSE Done(NoItem, retry.status)

RECURSIVE ParseFields_no_retry(_, _, _)
\* as the loop of TypedItem.parse, but the ValueError is not caught
ParseFields_no_retry(todo, raw, item) ==
    IF todo = <<>> THEN Done(item, "ok")
    ELSE LET key   == Head(todo)
             value == RawGet(raw, key)
         IN  IF value = None \/ value = EmptyStr
             THEN ParseFields_no_retry(Tail(todo), raw, item)
             ELSE LET first == TypedItem_setitem(item, key, value)
                  IN  IF first.status = "ok"
                      THEN ParseFields_no_retry(Tail(todo), raw, first.item)
                      ELSE Done(NoItem, first.status)

TypedItem_parse_no_retry(raw) == ParseFields_no_retry(FieldOrder, raw, NoItem)

\* TypedItem.parse
TypedItem_parse(raw) == ParseFields(FieldOrder, raw, NoItem)

RECURSIVE SetAll(_, _, _)
\* Item.__init__: self[k] = v for every entry of the mapping, keys in the given order
SetAll(keys, kept, item) ==
    IF keys = <<>> THEN Done(item, "ok")
    ELSE LET set == TypedItem_setitem(item, Head(keys), kept[Head(keys)])
         IN  IF set.status = "ok" THEN SetAll(Tail(keys), kept, set.item)
             ELSE Done(NoItem, set.status)

\* the keys of a mapping in the order its entries were inserted: here, the order
\* of the fields, undeclared keys last
KeyOrder == FieldOrder \o <<"extra">>

KeysOf(mapping) == SelectSeq(KeyOrder, LAMBDA k : k \in DOMAIN mapping)

\* as TypedItem.clean, but falsy values are kept
TypedItem_clean_keep_falsy(raw) ==
    LET keep == {k \in DOMAIN raw : k \in Declared}
        kept == [k \in keep |-> raw[k]]
    IN  SetAll(KeysOf(kept), kept, NoItem)

\* TypedItem.clean
TypedItem_clean(raw) ==
    LET keep == {k \in DOMAIN raw : Truthy(raw[k]) /\ k \in Declared}
        kept == [k \in keep |-> raw[k]]
    IN  SetAll(KeysOf(kept), kept, NoItem)

\* ------------------------------------------------------- item: actions
Values ==
    {None, EmptyStr, Text("word", 0), Text("int", 7), Text("int", 0), Text("true", 0),
     Text("json", 1), Text("date", 1),
     PyInt(0), PyInt(7), PyFloat(0), PyFloat(2), PyBool(TRUE), PyBool(FALSE),
     PyList(0), PyList(1), PyDatetime(1)}

Keys == Declared \cup {"extra"}

\* the dict-like inputs: up to MaxRawKeys entries
Raws ==
    UNION {[ks -> Values] : ks \in {k \in SUBSET Keys : Cardinality(k) <= MaxRawKeys}}

\* article[key] = value
Assign(key, value) ==
    /\ op \in {"new", "assign"}
    /\ steps < MaxAssigns
    /\ LET done == TypedItem_setitem(article, key, value)
       IN  /\ article' = done.item
           /\ status' = done.status
           /\ sound' = (sound /\ done.status = "ok")
    /\ op' = "assign"
    /\ given' = (key :> value)
    /\ prior' = article
    /\ steps' = steps + 1
    /\ UNCHANGED <<chainVars, normVars, loadVars, mainVars>>

\* GameItem.parse(raw)
ParseRaw(raw) ==
    /\ op = "new"
    /\ LET done == TypedItem_parse(raw)
       IN  article' = done.item /\ status' = done.status
    /\ op' = "parse"
    /\ given' = raw
    /\ prior' = article
    /\ UNCHANGED <<steps, sound, chainVars, normVars, loadVars, mainVars>>

\* GameItem.clean(raw)
CleanRaw(raw) ==
    /\ op = "new"
    /\ LET done == TypedItem_clean(raw)
       IN  article' = done.item /\ status' = done.status
    /\ op' = "clean"
    /\ given' = raw
    /\ prior' = article
    /\ UNCHANGED <<steps, sound, chainVars, normVars, loadVars, mainVars>>

\* GameItem.clean(article), of the item an earlier clean returned
CleanAgain ==
    /\ op = "clean"
    /\ status = "ok"
    /\ LET done == TypedItem_clean(article)
       IN  article' = done.item /\ status' = done.status
    /\ op' = "reclean"
    /\ given' = article
    /\ prior' = article
    /\ UNCHANGED <<steps, sound, chainVars, normVars, loadVars, mainVars>>

AssignAny == \E key \in Keys : \E value \in Values : Assign(key, value)

ParseAny == \E raw \in Raws : ParseRaw(raw)

CleanAny == \E raw \in Raws : CleanRaw(raw)

ItemInit ==
    /\ op = "new"
    /\ article = NoItem
    /\ status = "ok"
    /\ given = NoItem
    /\ prior = NoItem
    /\ steps = 0
    /\ sound = TRUE

\* ======================================================= import pipelines
Years == {2018, 2019}

\* one function of a MapCompose; lower and upper are <<>> for None
Fn(name) == [fn |-> name, lower |-> <<>>, upper |-> <<>>]

ValidateRange(lower, upper) == [fn |-> "validate_range", lower |-> lower, upper |-> upper]

identity(value) == value

\* str(value)
str(value) ==
    CASE value.t = "str"   -> value
      [] value.t = "int"   -> Text("int", value.n)
      [] value.t = "float" -> Text("dec", value.n)
      [] OTHER             -> Text("word", 0)

\* the text without its markup
remove_tags(value) == IF value.k = "markup" THEN Text("int", value.n) ELSE value

\* the text with its character entities replaced by what they stand for
replace_entities(value) == IF value.k = "entity" THEN Text("int", value.n) ELSE value

\* the text without surrounding or repeated white space
normalize_space(value) == IF value.k = "padded" THEN Text("int", value.n) ELSE value

\* the value, or None when it lies outside [lower, upper]
validate_range(value, lower, upper) ==
    IF \/ lower # <<>> /\ value.n < lower[1]
       \/ upper # <<>> /\ value.n > upper[1]
    THEN None
    ELSE value

\* lambda v: v or None
or_none(value) == IF Truthy(value) THEN value ELSE None

Cleaning ==
    <<Fn("identity"), Fn("str"), Fn("remove_tags"), Fn("replace_entities"),
      Fn("replace_entities"), Fn("normalize_space")>>

\* as POS_INT_PROCESSOR, with the lower bound of NN_INT_PROCESSOR
POS_INT_PROCESSOR_lower0 == Cleaning \o <<Fn("parse_int"), ValidateRange(<<0>>, <<>>)>>

\* as POS_INT_PROCESSOR, without parse_int and validate_range
POS_INT_PROCESSOR_unparsed == Cleaning

POS_INT_PROCESSOR == Cleaning \o <<Fn("parse_int"), ValidateRange(<<1>>, <<>>)>>

NN_INT_PROCESSOR == Cleaning \o <<Fn("parse_int"), ValidateRange(<<0>>, <<>>)>>

POS_FLOAT_PROCESSOR ==
    Cleaning \o <<Fn("parse_float"), ValidateRange(<<0>>, <<>>), Fn("or_none")>>

NN_FLOAT_PROCESSOR == Cleaning \o <<Fn("parse_float"), ValidateRange(<<0>>, <<>>)>>

\* the input_processor of GameItem.year
year_input_processor ==
    Cleaning \o <<Fn("parse_int"), ValidateRange(<<-4000>>, <<today + 10>>), Fn("or_none")>>

Pipelines ==
    {"POS_INT_PROCESSOR", "NN_INT_PROCESSOR", "POS_FLOAT_PROCESSOR", "NN_FLOAT_PROCESSOR",
     "year"}

PipelineOf(name) ==
    CASE name = "POS_INT_PROCESSOR"   -> POS_INT_PROCESSOR
      [] name = "NN_INT_PROCESSOR"    -> NN_INT_PROCESSOR
      [] name = "POS_FLOAT_PROCESSOR" -> POS_FLOAT_PROCESSOR
      [] name = "NN_FLOAT_PROCESSOR"  -> NN_FLOAT_PROCESSOR
      [] name = "year"                -> year_input_processor

\* one function of a pipeline, called on one value
CallFn(step, value) ==
    CASE step.fn = "identity"         -> identity(value)
      [] step.fn = "str"              -> str(value)
      [] step.fn = "remove_tags"      -> remove_tags(value)
      [] step.fn = "replace_entities" -> replace_entities(value)
      [] step.fn = "normalize_space"  -> normalize_space(value)
      [] step.fn = "parse_int"        -> parse_int(value)
      [] step.fn = "parse_float"      -> parse_float(value)
      [] step.fn = "validate_range"   -> validate_range(value, step.lower, step.upper)
      [] step.fn = "or_none"          -> or_none(value)

RECURSIVE MapFn(_, _)
\* next_values += arg_to_iter(func(v)) for every v: a None result adds nothing
MapFn(step, values) ==
    IF values = <<>> THEN <<>>
    ELSE LET result == CallFn(step, Head(values))
         IN  (IF result = None THEN <<>> ELSE <<result>>) \o MapFn(step, Tail(values))

RECURSIVE MapCompose(_, _)
MapCompose(steps_, values) ==
    IF steps_ = <<>> THEN values
    ELSE MapCompose(Tail(steps_), MapFn(Head(steps_), values))

\* the numbers the candidates are written from: around every bound
Numbers == {-4001, -4000, -3999, -1, 0, 1, 2, today + 9, today + 10, today + 11}

Candidates ==
    {PyInt(n) : n \in Numbers} \cup {PyFloat(n) : n \in Numbers}
    \cup {Text(k, n) : k \in {"int", "dec", "markup", "padded", "entity"}, n \in Numbers}
    \cup {Text("word", 0), EmptyStr}

\* an input processor is run on one candidate
Normalize(name, value) ==
    /\ pipeline' = name
    /\ candidate' = value
    /\ normalized' = MapCompose(PipelineOf(name), <<value>>)
    /\ UNCHANGED <<today, chainVars, itemVars, loadVars, mainVars>>

NormalizeAny == \E name \in Pipelines : \E value \in Candidates : Normalize(name, value)

NormInit ==
    /\ today \in Years
    /\ pipeline = ""
    /\ candidate = None
    /\ normalized = <<>>

\* no pipeline is run
NormIdle ==
    /\ today = 2018
    /\ pipeline = ""
    /\ candidate = None
    /\ normalized = <<>>

\* ================================================ loader, one scalar field
\* An integer field of GameItem with POS_INT_PROCESSOR as input processor and the
\* loader's default output processor, filled by several add_jmes / add_value calls.
ScalarField == "min_players"

\* arg_to_iter(value): None gives no values
arg_to_iter(value) == IF value = None THEN <<>> ELSE <<value>>

RECURSIVE TakeFirst(_)
\* the first value that is neither None nor ''; None when there is none
TakeFirst(values) ==
    IF values = <<>> THEN None
    ELSE IF Head(values) # None /\ Head(values) # EmptyStr THEN Head(values)
    ELSE TakeFirst(Tail(values))

\* what one call may offer for the field
ScalarCandidates ==
    {None, EmptyStr, Text("word", 0), Text("int", 5), Text("int", 9), Text("markup", 9),
     PyInt(0), PyInt(5)}

\* ldr.add_value(field, value): the input processor runs on the call's values
AddCandidate(value) ==
    /\ ~finalized
    /\ Len(calls) < MaxCalls
    /\ calls' = Append(calls, value)
    /\ collected' = add_value(collected, ScalarField,
                              MapCompose(POS_INT_PROCESSOR, arg_to_iter(value)))
    /\ UNCHANGED <<finalized, field_value, chainVars, itemVars, normVars, mainVars>>

AddAnyCandidate == \E value \in ScalarCandidates : AddCandidate(value)

\* ldr.load_item(): the field is set when its output value is not None
LoadItem ==
    /\ ~finalized
    /\ finalized' = TRUE
    /\ LET value == IF ScalarField \in DOMAIN collected
                    THEN TakeFirst(collected[ScalarField]) ELSE None
       IN  field_value' = IF value = None THEN <<>> ELSE <<value>>
    /\ UNCHANGED <<calls, collected, chainVars, itemVars, normVars, mainVars>>

LoadInit ==
    /\ calls = <<>>
    /\ collected = NoValues
    /\ finalized = FALSE
    /\ field_value = <<>>

\* ==================================================================== main
\* A sub-directory of the jobs directory is named by its tag, a time in seconds.
\* Its state is the first line of its state file, "" when that line is empty,
\* "unreadable" when reading the file raises, "nofile" when the sub-directory has
\* no state file.
RESUMABLE_STATES == {"shutdown", "closespider_timeout"}

\* what a crawl writes into its state file
CrawlStates == {"", "running", "finished", "cancelled"} \cup RESUMABLE_STATES

JobStates == {"nofile", "unreadable"} \cup CrawlStates

\* now() when the first invocation starts: later than the tag of every job found
StartTime == MaxJobs + 1

MaxTime == StartTime + 1

Invocations == 1..MaxInvocations

NoJobs == <<>>

\* the mapping without the given keys
Without(dir, tags) == [t \in DOMAIN dir \ tags |-> dir[t]]

\* the orders in which iterdir() may yield the sub-directories
Orders(tags) ==
    {o \in [1..Cardinality(tags) -> tags] : \A i, j \in DOMAIN o : o[i] = o[j] => i = j}

\* the mapping with one more entry
With(result, tag, state) ==
    [t \in DOMAIN result \cup {tag} |-> IF t = tag THEN state ELSE result[t]]

\* the loop of _find_states over the sub-directories still to come. Reading an
\* unreadable state file raises, and the handler calls LOGGER.exeception, which
\* no logger has: the AttributeError ends the call
RECURSIVE Scan(_, _, _, _, _)
Scan(dir, order, delete, delete_non_state, result) ==
    IF order = <<>> THEN [dir |-> dir, result |-> result, raised |-> FALSE]
    ELSE LET sub_dir == Head(order)
             state   == dir[sub_dir]
         IN  IF state = "nofile"
             THEN Scan(dir, Tail(order), delete, delete_non_state, result)
             ELSE IF state = "unreadable"
             THEN [dir |-> dir, result |-> result, raised |-> TRUE]
             ELSE IF state \in delete \/ (delete_non_state /\ state = "")
             THEN Scan(Without(dir, {sub_dir}), Tail(order), delete, delete_non_state, result)
             ELSE IF state # ""
             THEN Scan(dir, Tail(order), delete, delete_non_state,
                       With(result, sub_dir, state))
             ELSE Scan(dir, Tail(order), delete, delete_non_state, result)

\* _find_states: dir is the directory it leaves, result what it returns unless
\* it raised
_find_states(dir, order, delete, delete_non_state) ==
    Scan(dir, order, delete, delete_non_state, NoJobs)

\* sorted(tags)[0]
Oldest(tags) == CHOOSE t \in tags : \A u \in tags : t <= u

\* as main's choice, without the return when a single job is running
Launch_one_running_ignored(found, time) ==
    LET running   == {t \in DOMAIN found : found[t] = "running"}
        resumable == {t \in DOMAIN found : found[t] \in RESUMABLE_STATES}
    IN  IF Cardinality(running) > 1 THEN <<>>
        ELSE IF Cardinality(resumable) > 1 THEN <<>>
        ELSE <<IF resumable # {} THEN Oldest(resumable) ELSE time>>

\* main from `running = ...` on: <<>> when it returns without a crawl, else
\* <<job_tag>>, the tag of the JOBDIR it executes the crawl with
Launch(found, time) ==
    LET running   == {t \in DOMAIN found : found[t] = "running"}
        resumable == {t \in DOMAIN found : found[t] \in RESUMABLE_STATES}
    IN  IF Cardinality(running) > 1 THEN <<>>
        ELSE IF running # {} THEN <<>>
        ELSE IF Cardinality(resumable) > 1 THEN <<>>
        ELSE <<IF resumable # {} THEN Oldest(resumable) ELSE time>>

\* the crawl creates its JOBDIR when it does not exist
Created(dir, tags) ==
    [t \in DOMAIN dir \cup {tags[i] : i \in 1..Len(tags)} |->
        IF t \in DOMAIN dir THEN dir[t] ELSE "nofile"]

\* main up to the return of _find_states, or to the exception that ends it
FindStates(p) ==
    /\ pc[p] = "start"
    /\ \E order \in Orders(DOMAIN jobs) :
           LET call == _find_states(jobs, order, {"finished"}, FALSE)
           IN  /\ jobs' = call.dir
               /\ states' = [states EXCEPT ![p] = IF call.raised THEN @ ELSE call.result]
               /\ pc' = [pc EXCEPT ![p] = IF call.raised THEN "failed" ELSE "found"]
    /\ met' = [met EXCEPT ![p] = jobs]
    /\ UNCHANGED <<clock, launches, chainVars, itemVars, normVars, loadVars>>

\* main from there to its return, or into execute
Decide(p) ==
    /\ pc[p] = "found"
    /\ LET command == Launch(states[p], clock)
       IN  /\ launches' = [launches EXCEPT ![p] = @ \o command]
           /\ jobs' = Created(jobs, command)
           /\ pc' = [pc EXCEPT ![p] = IF command = <<>> THEN "done" ELSE "crawling"]
    /\ UNCHANGED <<clock, met, states, chainVars, itemVars, normVars, loadVars>>

\* the crawl that execute runs writes a state into the state file of its JOBDIR
CrawlWrites(p) ==
    /\ pc[p] = "crawling"
    /\ \E state \in CrawlStates : jobs' = With(jobs, launches[p][1], state)
    /\ UNCHANGED <<clock, pc, met, states, launches, chainVars, itemVars, normVars, loadVars>>

\* execute is over
Finish(p) ==
    /\ pc[p] = "crawling"
    /\ pc' = [pc EXCEPT ![p] = "done"]
    /\ UNCHANGED <<jobs, clock, met, states, launches, chainVars, itemVars, normVars, loadVars>>

\* a second passes
Tick ==
    /\ clock < MaxTime
    /\ clock' = clock + 1
    /\ UNCHANGED <<jobs, pc, met, states, launches, chainVars, itemVars, normVars, loadVars>>

FindStatesAny == \E p \in Invocations : FindStates(p)

DecideAny == \E p \in Invocations : Decide(p)

CrawlWritesAny == \E p \in Invocations : CrawlWrites(p)

FinishAny == \E p \in Invocations : Finish(p)

\* up to MaxJobs sub-directories, tagged with times before now
MainInit ==
    /\ jobs \in UNION {[tags -> JobStates] : tags \in SUBSET (1..MaxJobs)}
    /\ clock = StartTime
    /\ pc = [p \in Invocations |-> "start"]
    /\ met = [p \in Invocations |-> NoJobs]
    /\ states = [p \in Invocations |-> NoJobs]
    /\ launches = [p \in Invocations |-> <<>>]

\* main is not invoked
MainIdle ==
    /\ jobs = NoJobs
    /\ clock = StartTime
    /\ pc = [p \in Invocations |-> "done"]
    /\ met = [p \in Invocations |-> NoJobs]
    /\ states = [p \in Invocations |-> NoJobs]
    /\ launches = [p \in Invocations |-> <<>>]

\* ========================================================= specifications
ParsePage == \E page \in Pages : Parse(page)

ChainInit ==
    /\ mode \in {"crawl", "check"}
    /\ settings \in [scrape_images : BOOLEAN, scrape_videos : BOOLEAN, scrape_reviews : BOOLEAN]
    /\ parsed = FALSE
    /\ items = <<>>
    /\ lists = <<>>
    /\ scheduled = {}
    /\ output = <<>>
    /\ exported = <<>>
    /\ dropped = <<>>
    /\ built = <<>>
    /\ trace = <<>>

\* no crawl: the spider is not started
ChainIdle ==
    /\ mode = "idle"
    /\ settings = [scrape_images |-> FALSE, scrape_videos |-> FALSE, scrape_reviews |-> FALSE]
    /\ parsed = FALSE
    /\ items = <<>>
    /\ lists = <<>>
    /\ scheduled = {}
    /\ output = <<>>
    /\ exported = <<>>
    /\ dropped = <<>>
    /\ built = <<>>
    /\ trace = <<>>

vars == <<chainVars, itemVars, normVars, loadVars, mainVars>>

\* the spider
Init == ChainInit /\ ItemInit /\ NormIdle /\ LoadInit /\ MainIdle

Next ==
    \/ ParsePage
    \/ DeliverResponse
    \/ DeliverFailure
    \/ RunContract

Spec == Init /\ [][Next]_vars

\* Every issued request is eventually answered, by a response or by a failure.
FairSpec == Spec /\ WF_vars(DeliverResponse \/ DeliverFailure)

\* the typed items
ItemSpecInit == ChainIdle /\ ItemInit /\ NormIdle /\ LoadInit /\ MainIdle

ItemNext ==
    \/ AssignAny
    \/ ParseAny
    \/ CleanAny
    \/ CleanAgain

ItemSpec == ItemSpecInit /\ [][ItemNext]_vars

\* the import pipelines
NormSpecInit == ChainIdle /\ ItemInit /\ NormInit /\ LoadInit /\ MainIdle

NormNext == NormalizeAny

NormSpec == NormSpecInit /\ [][NormNext]_vars

\* the loader of one scalar field
LoadSpecInit == ChainIdle /\ ItemInit /\ NormIdle /\ LoadInit /\ MainIdle

LoadNext ==
    \/ AddAnyCandidate
    \/ LoadItem

LoadSpec == LoadSpecInit /\ [][LoadNext]_vars

\* the invocations of main
MainSpecInit == ChainIdle /\ ItemInit /\ NormIdle /\ LoadInit /\ MainInit

MainNext ==
    \/ FindStatesAny
    \/ DecideAny
    \/ CrawlWritesAny
    \/ FinishAny
    \/ Tick

MainSpec == MainSpecInit /\ [][MainNext]_vars

\* ================================================================ claims
\* ------------------------------------------------- chain: what is observed
Chains == 1..Len(trace)

\* the chains of the games parse produced (not those of contract runs)
GameChains == {c \in Chains : trace[c][1].ev = "parse"}

IsIssue(e) == e.ev = "issue"

IsAnswer(e) == e.ev \in {"response", "error"}

IsEmit(e) == e.ev = "emit"

Issues(c) == SelectSeq(trace[c], IsIssue)

Answers_(c) == SelectSeq(trace[c], IsAnswer)

Emits(c) == SelectSeq(trace[c], IsEmit)

InFlight(c) == {r \in scheduled : r.chain = c}

Stage(e) == [url |-> e.url, callback |-> e.callback]

\* the field a callback fills
FieldOf(callback) ==
    CASE callback = "parse_images"  -> "image_url"
      [] callback = "parse_videos"  -> "video_url"
      [] callback = "parse_reviews" -> "review_url"
      [] callback = "parse"         -> "image_url"

\* C1: the requests of a game's chain are issued in the order of the queue parse
\* built; the request for element k+1 is issued only after the answer (response or
\* error) to the request for element k reached its callback; at most one request of
\* the chain is in flight.
C1_QueueInOrder ==
    \A c \in GameChains :
        /\ Len(Issues(c)) <= Len(built[c])
        /\ \A k \in 1..Len(Issues(c)) : Stage(Issues(c)[k]) = built[c][k]
        /\ \A p \in 1..Len(trace[c]) :
               IsIssue(trace[c][p]) =>
                   LET before  == SubSeq(trace[c], 1, p - 1)
                       issued  == SelectSeq(before, IsIssue)
                       answers == SelectSeq(before, IsAnswer)
                   IN  /\ Len(answers) = Len(issued)
                       /\ \A k \in 1..Len(issued) : Stage(answers[k]) = Stage(issued[k])
        /\ Cardinality(InFlight(c)) <= 1
        /\ Cardinality(InFlight(c)) = Len(Issues(c)) - Len(Answers_(c))
        /\ \A r \in InFlight(c) :
               [url |-> r.url, callback |-> r.callback] = Stage(Issues(c)[Len(Issues(c))])

\* two chains at once, one with its third request in flight, the other with its first
C1_Witness ==
    \E c, d \in GameChains :
        /\ c # d
        /\ Len(Issues(c)) = 3 /\ InFlight(c) # {}
        /\ Len(Issues(d)) = 1 /\ InFlight(d) # {}

\* C2: the record bound to a request in flight (by partial() and in its meta) holds
\* every value the earlier stages of its chain took from their documents, and each
\* of these stages had returned before the request was issued.
C2_EarlierStagesStored ==
    \A r \in scheduled :
        /\ r.meta["item"] = r.item
        /\ \A p \in 1..Len(trace[r.chain]) :
               LET e == trace[r.chain][p]
               IN  (IsAnswer(e) \/ e.ev = "parse") =>
                       /\ Range(e.got) \subseteq Range(ItemGet(items[r.item], FieldOf(e.callback)))
                       /\ p < Len(trace[r.chain])

\* the reviews request is in flight and images and videos both found values
C2_Witness ==
    \E r \in scheduled :
        /\ r.callback = "parse_reviews"
        /\ \E p, q \in 1..Len(trace[r.chain]) :
               /\ trace[r.chain][p].callback = "parse_images" /\ trace[r.chain][p].got # <<>>
               /\ trace[r.chain][q].callback = "parse_videos" /\ trace[r.chain][q].got # <<>>

Emitted(c) == {k \in 1..Len(output) : output[k].chain = c}

Finished(c) == Cardinality(Emitted(c)) = 1

\* what holds of a chain at any time: never two records, and once the record is out
\* every queued stage was requested exactly once, in order, and nothing follows
C3_Safe(c) ==
    /\ Cardinality(Emitted(c)) <= 1
    /\ Len(Emits(c)) = Cardinality(Emitted(c))
    /\ Finished(c) =>
           /\ Len(Issues(c)) = Len(built[c])
           /\ \A k \in 1..Len(built[c]) : Stage(Issues(c)[k]) = built[c][k]
           /\ IsEmit(trace[c][Len(trace[c])])
           /\ InFlight(c) = {}

\* C3: when every issued request is answered, each game's chain ends with exactly one
\* finished record, after exactly one request per queued stage, and issues nothing
\* after it.
C3_ChainCompletes ==
    /\ [](\A c \in GameChains : C3_Safe(c))
    /\ (parsed ~> (\A c \in GameChains : Finished(c)))

\* two finished chains of three stages each
C3_Witness ==
    /\ Cardinality(GameChains) = 2
    /\ \A c \in GameChains : Finished(c) /\ Len(built[c]) = 3

\* the second stage of a three-stage chain was answered by a failure
SecondFailed(c) ==
    /\ Len(built[c]) = 3
    /\ Len(Answers_(c)) >= 2
    /\ Answers_(c)[2].ev = "error"

\* C4: in a chain of three stages whose second request fails, the third request is
\* still issued, and the chain ends with exactly one record, which holds what stages
\* 1 and 3 found and nothing for the field of stage 2.
C4_FailedStageSkipped ==
    \A c \in GameChains :
        SecondFailed(c) =>
            /\ Len(Issues(c)) = 3
            /\ Stage(Issues(c)[3]) = built[c][3]
            /\ Cardinality(Emitted(c)) <= 1
            /\ (InFlight(c) = {}) =>
                   /\ Finished(c)
                   /\ \A k \in Emitted(c) :
                          /\ Range(Answers_(c)[1].got)
                                \subseteq Range(ItemGet(output[k].item, FieldOf(built[c][1].callback)))
                          /\ Range(Answers_(c)[3].got)
                                \subseteq Range(ItemGet(output[k].item, FieldOf(built[c][3].callback)))
                          /\ FieldOf(built[c][2].callback) \notin DOMAIN output[k].item

\* such a chain, finished, where stages 1 and 3 both found values
C4_Witness ==
    \E c \in GameChains :
        /\ SecondFailed(c)
        /\ Finished(c)
        /\ Answers_(c)[1].got # <<>>
        /\ Answers_(c)[3].got # <<>>

\* C5: every step returns the record or one request, never both. A step whose
\* response carries no queue, or an empty one, returns the record and issues nothing;
\* a step with a non-empty queue pops its head and issues exactly one request, for
\* that head, carrying the record and the rest of the queue, and emits nothing.
C5_Advance ==
    /\ \A req \in scheduled \ scheduled' :
           LET qref  == MetaGet(req.meta, "game_requests")
               queue == IF qref = NoRef THEN <<>> ELSE lists[qref]
               new   == scheduled' \ scheduled
           IN  IF queue = <<>>
               THEN /\ new = {}
                    /\ Len(output') = Len(output) + 1
                    /\ output'[Len(output')].ref = req.item
                    /\ output'[Len(output')].item = items'[req.item]
               ELSE /\ output' = output
                    /\ Cardinality(new) = 1
                    /\ \A n \in new :
                           /\ [url |-> n.url, callback |-> n.callback] = Head(queue)
                           /\ n.item = req.item
                           /\ n.meta["item"] = req.item
                           /\ n.meta["game_requests"] = qref
                           /\ lists'[qref] = Tail(queue)
    /\ (mode = "check" /\ trace' # trace) =>
           /\ scheduled' = scheduled
           /\ Len(output') = Len(output) + 1
    /\ (~parsed /\ parsed') =>
           \A c \in 1..Len(built') :
               LET reqs == {r \in scheduled' : r.chain = c}
                   outs == {k \in 1..Len(output') : output'[k].chain = c}
               IN  IF built'[c] = <<>>
                   THEN reqs = {} /\ Cardinality(outs) = 1
                   ELSE /\ outs = {}
                        /\ Cardinality(reqs) = 1
                        /\ \A r \in reqs :
                               /\ [url |-> r.url, callback |-> r.callback] = Head(built'[c])
                               /\ r.meta["item"] = r.item
                               /\ lists'[r.meta["game_requests"]] = Tail(built'[c])

C5_EitherRecordOrRequest == [][C5_Advance]_vars

\* a chain that popped twice and then, its queue empty, returned the record
C5_Witness ==
    \E c \in GameChains :
        /\ Len(built[c]) = 2
        /\ Len(Issues(c)) = 2
        /\ Finished(c)

\* ----------------------------------------------------------- typed items
\* the value is an instance of the field's declared type, or None
TypedOrNull(key, value) == value = None \/ IsInstance(value, fields[key].dtype)

\* the value is an instance of the field's declared type, or None in an optional field
TypedOrOptionalNull(key, value) ==
    \/ IsInstance(value, fields[key].dtype)
    \/ value = None /\ ~fields[key].required

\* article[key] = value does not raise: the value has the type, or the field converts
Assignable(key, value) == TypedOrNull(key, value) \/ fields[key].dtype_convert # ""

\* what a successful article[key] = value stores
Assigned(key, value) ==
    IF TypedOrNull(key, value) THEN value ELSE Apply(fields[key].dtype_convert, value)

\* every assignment made so far succeeded
AllAssigned == op = "assign" /\ sound

\* C6 (as amended): in every state of an item reached by successful assignments,
\* every stored value is an instance of its field's declared type or is None; None
\* is stored in required fields as in optional ones, because assignment never looks
\* at `required`.
C6_TypeContract ==
    AllAssigned =>
        /\ DOMAIN article \subseteq Declared
        /\ \A key \in DOMAIN article : TypedOrNull(key, article[key])

\* C6 (as stated): in every state of an item reached by successful assignments,
\* every stored value is an instance of its field's declared type, or is None only
\* if the field is optional.
C6_NullOnlyIfOptional ==
    AllAssigned => \A key \in DOMAIN article : TypedOrOptionalNull(key, article[key])

\* two successful assignments: None to the required name, a numeral converted to int
C6_Witness ==
    /\ AllAssigned
    /\ steps = 2
    /\ given = ("year" :> Text("int", 7))
    /\ article = ("name" :> None) @@ ("year" :> PyInt(7))

\* the declared fields of the input that parse does not skip
Attempted(raw) == {key \in Declared \cap DOMAIN raw : raw[key] \notin {None, EmptyStr}}

\* the field's parser applied to the raw value
Retried(key, raw) == Apply(fields[key].parser, raw[key])

\* the fields whose assignment raises a ValueError and whose retry raises again
Failing(raw) ==
    {key \in Attempted(raw) :
        ~Assignable(key, raw[key]) /\ ~Assignable(key, Retried(key, raw))}

\* what parse stores in a field: the assigned raw value, or else the assigned
\* result of the one retry
Parsed(key, raw) ==
    IF Assignable(key, raw[key]) THEN Assigned(key, raw[key])
    ELSE Assigned(key, Retried(key, raw))

\* parse(given) ended as it has to, values typed as typed(key, value) says
ParseLoose(typed(_, _)) ==
    IF Failing(given) = {}
    THEN /\ status = "ok"
         /\ DOMAIN article = Attempted(given)
         /\ \A key \in DOMAIN article :
                article[key] = Parsed(key, given) /\ typed(key, article[key])
    ELSE status = "ValueError" /\ article = NoItem

\* C7 (as amended): parse skips every declared field whose raw value is None or ''
\* and ignores undeclared keys; every other declared field is assigned, and when
\* that raises a ValueError the assignment is retried once with the field's parser
\* applied to the raw value; a failing retry propagates and no item is returned;
\* every value of the returned item is an instance of its field's type or None,
\* None also in a required field whose converter or parser found no value.
C7_ParseLoose == op = "parse" => ParseLoose(TypedOrNull)

\* C7 (as stated): the same, the returned item fully typed: every value an
\* instance of its field's type, or None only if the field is optional.
C7_ParseFullyTyped == op = "parse" => ParseLoose(TypedOrOptionalNull)

\* a skipped '' and a list that only the retry with the parser could read
C7_Witness ==
    /\ op = "parse"
    /\ status = "ok"
    /\ given = ("alt_name" :> Text("json", 1)) @@ ("name" :> EmptyStr)
    /\ article = ("alt_name" :> PyList(1))

\* C8 (as stated): clean is idempotent: cleaning the item a successful clean
\* returned succeeds and returns an equal item.
C8_CleanIdempotent == op = "reclean" => status = "ok" /\ article = prior

\* the declared, truthy entries of the input
Kept(raw) == {key \in Declared \cap DOMAIN raw : Truthy(raw[key])}

\* C9 (as amended): clean returns an item holding exactly the keys of the input
\* that are declared fields with a truthy value; a kept value that is an instance
\* of its field's type is stored as given, any other is replaced by what the
\* field's converter makes of it (None included), and clean raises when the field
\* has no converter; the field's parser is never applied.
C9_CleanKeeps ==
    op = "clean" =>
        IF \A key \in Kept(given) : Assignable(key, given[key])
        THEN /\ status = "ok"
             /\ DOMAIN article = Kept(given)
             /\ \A key \in DOMAIN article : article[key] = Assigned(key, given[key])
        ELSE status = "ValueError" /\ article = NoItem

\* C9 (as stated): the item a successful clean returns holds exactly the declared,
\* truthy entries of the input, each value stored as given.
C9_StoredAsGiven ==
    (op = "clean" /\ status = "ok") =>
        /\ DOMAIN article = Kept(given)
        /\ \A key \in DOMAIN article : article[key] = given[key]

\* an undeclared key dropped, a numeral kept and converted
C9_Witness ==
    /\ op = "clean"
    /\ status = "ok"
    /\ given = ("extra" :> PyInt(7)) @@ ("year" :> Text("int", 7))
    /\ article = ("year" :> PyInt(7))

\* ------------------------------------------------------ import pipelines
\* the bounds the pipelines declare, <<>> where there is none
DeclaredLower(name) ==
    CASE name = "POS_INT_PROCESSOR"   -> <<1>>
      [] name = "NN_INT_PROCESSOR"    -> <<0>>
      [] name = "POS_FLOAT_PROCESSOR" -> <<0>>
      [] name = "NN_FLOAT_PROCESSOR"  -> <<0>>
      [] name = "year"                -> <<-4000>>

DeclaredUpper(name) == IF name = "year" THEN <<today + 10>> ELSE <<>>

\* the pipelines that end with `lambda v: v or None`
DropsZero(name) == name \in {"POS_FLOAT_PROCESSOR", "year"}

IntPipelines == {"POS_INT_PROCESSOR", "NN_INT_PROCESSOR", "year"}

\* the candidates the pipeline reads as the number n
WrittenAs(name, n) ==
    {PyInt(n)} \cup {Text(k, n) : k \in {"int", "markup", "entity", "padded"}}
    \cup (IF name \in IntPipelines THEN {} ELSE {PyFloat(n), Text("dec", n)})

\* the number n as the pipeline yields it
NumberOf(name, n) == IF name \in IntPipelines THEN PyInt(n) ELSE PyFloat(n)

Outside(name, n) ==
    \/ DeclaredLower(name) # <<>> /\ n < DeclaredLower(name)[1]
    \/ DeclaredUpper(name) # <<>> /\ n > DeclaredUpper(name)[1]

OnBound(name, n) == <<n>> \in {DeclaredLower(name), DeclaredUpper(name)}

\* the pipeline was run on a candidate written from n: outside the bounds there is
\* no value, on a bound there is the number unless rejected(name, n)
RangeEnforced(rejected(_, _)) ==
    pipeline \in Pipelines =>
        \A n \in Numbers :
            candidate \in WrittenAs(pipeline, n) =>
                /\ Outside(pipeline, n) => normalized = <<>>
                /\ OnBound(pipeline, n) =>
                       normalized = IF rejected(pipeline, n) THEN <<>>
                                    ELSE <<NumberOf(pipeline, n)>>

ZeroDropped(name, n) == n = 0 /\ DropsZero(name)

NeverDropped(name, n) == FALSE

\* C10 (as amended): a candidate strictly outside the bounds its pipeline declares
\* normalizes to no value; a candidate equal to a bound yields that number, except
\* that 0 yields no value in the pipelines that end by replacing a falsy result by
\* None: POS_FLOAT_PROCESSOR, whose lower bound is 0.
C10_RangeEnforced == RangeEnforced(ZeroDropped)

\* C10 (as stated): a candidate strictly outside the bounds normalizes to no value,
\* and a candidate equal to lo or to hi yields that number.
C10_BoundaryAccepted == RangeEnforced(NeverDropped)

\* the upper bound of year, written inside markup, is accepted
C10_Witness ==
    /\ pipeline = "year"
    /\ candidate = Text("markup", today + 10)
    /\ normalized = <<PyInt(today + 10)>>

\* ------------------------------------------------------- chain: list fields
\* after holds the candidates before \o got, each once, in the order of their first
\* occurrence; before, which has no duplicates, is its beginning
Merged(before, got, after) ==
    LET cands == before \o got
        First(v) == CHOOSE i \in 1..Len(cands) :
                        cands[i] = v /\ \A j \in 1..(i - 1) : cands[j] # v
    IN  /\ Range(after) = Range(cands)
        /\ \A i, j \in 1..Len(after) :
               i < j => after[i] # after[j] /\ First(after[i]) < First(after[j])
        /\ Len(after) >= Len(before)
        /\ SubSeq(after, 1, Len(before)) = before

\* the call event of the step a chain has just taken
LastCall(c) == trace'[c][Len(trace'[c]) - 1]

C11_Step ==
    /\ clear_list(<<"b", "a", "b", "c">>) = <<"b", "a", "c">>
    /\ \A req \in scheduled \ scheduled' :
           LET field == FieldOf(req.callback)
           IN  Merged(ItemGet(items[req.item], field), LastCall(req.chain).got,
                      ItemGet(items'[req.item], field))
    /\ (~parsed /\ parsed') =>
           \A c \in 1..Len(trace') :
               Merged(<<>>, trace'[c][1].got, ItemGet(items'[c], "image_url"))

\* C11: the value of a list field after a stage is the candidates of all its calls
\* in extraction order, duplicates removed and the first occurrence kept
\* ([b, a, b, c] gives [b, a, c]); an enrichment stage adds the values already on
\* the item first, so every value the list held before is still there, in the same
\* order, followed by the newly extracted ones.
C11_ListDeduplicated == [][C11_Step]_vars

\* a finished game whose image found on the search page is followed by the two new
\* images of the images document, which names one of them twice
C11_Witness ==
    \E c \in GameChains :
        /\ trace[c][1].got = <<"i1">>
        /\ \E p \in 1..Len(trace[c]) :
               /\ trace[c][p].ev = "response"
               /\ trace[c][p].got = <<"i2", "i2", "i1", "i3">>
        /\ \E k \in Emitted(c) : output[k].item["image_url"] = <<"i1", "i2", "i3">>

\* ------------------------------------------------------- loader: scalars
\* the positive integer a candidate reads as, <<>> when it reads as none
PositiveInt(value) ==
    IF /\ \/ value.t = "int"
          \/ value.t = "str" /\ value.k \in {"int", "markup", "entity", "padded"}
       /\ value.n >= 1
    THEN <<PyInt(value.n)>>
    ELSE <<>>

\* the calls whose candidate normalizes to a value
Valued == {i \in 1..Len(calls) : PositiveInt(calls[i]) # <<>>}

\* C12: the loaded value of a scalar field is the normalized first candidate, in the
\* order of the calls, that normalizes to a value; a later candidate is used only if
\* all earlier ones normalize to no value, and the field stays unset if none does
\* (None, '', '5', '9' for an integer field give 5).
C12_ScalarFirstMatch ==
    finalized =>
        IF Valued = {} THEN field_value = <<>>
        ELSE \E i \in Valued :
                 /\ \A j \in Valued : i <= j
                 /\ field_value = PositiveInt(calls[i])

\* the candidates None, '', '5', '9' were loaded as 5
C12_Witness ==
    /\ finalized
    /\ calls = <<None, EmptyStr, Text("int", 5), Text("int", 9)>>
    /\ field_value = <<PyInt(5)>>

\* ------------------------------------------------- chain: required fields
\* C13: an item in which the required field name is unset when a callback returns
\* it is never among the exported items; it is dropped and reported, exactly once,
\* and every returned item is either exported or dropped, so an item returned after
\* a dropped one is still processed.
C13_RequiredFieldDrop ==
    /\ \A k \in 1..Len(exported) : "name" \in DOMAIN exported[k].item
    /\ \A k \in 1..Len(dropped) : "name" \notin DOMAIN dropped[k].item
    /\ \A k \in 1..Len(output) :
           LET places(seq) == {i \in 1..Len(seq) : seq[i] = output[k]}
           IN  IF "name" \in DOMAIN output[k].item
               THEN Cardinality(places(exported)) = 1 /\ places(dropped) = {}
               ELSE Cardinality(places(dropped)) = 1 /\ places(exported) = {}
    /\ Len(exported) + Len(dropped) = Len(output)

\* a game without a name was dropped, and a game returned after it was exported
C13_Witness ==
    \E i, j \in 1..Len(output) :
        /\ i < j
        /\ output[i] \in Range(dropped)
        /\ output[j] \in Range(exported)
        /\ output[i].chain # output[j].chain

\* ------------------------------------------------------ chain: isolation
\* the item object of a chain: the one bound to its request in flight, or else the
\* one it returned
ItemRef(c) ==
    IF InFlight(c) # {} THEN (CHOOSE r \in InFlight(c) : TRUE).item
    ELSE output[CHOOSE k \in Emitted(c) : TRUE].ref

RECURSIVE Taken(_, _)
\* what the calls among the events took from their documents for the field, in order
Taken(events, field) ==
    IF events = <<>> THEN <<>>
    ELSE LET e == Head(events)
         IN  (IF (IsAnswer(e) \/ e.ev = "parse") /\ FieldOf(e.callback) = field
              THEN e.got ELSE <<>>)
             \o Taken(Tail(events), field)

\* the chain's item and requests are those of the chain run alone: the list fields
\* hold what the chain's own calls took and nothing else, its requests are the
\* beginning of the queue built for its own game, and its item object and pending
\* list are no other chain's
Alone(c) ==
    /\ \A field \in ListFields :
           Merged(<<>>, Taken(trace[c], field), ItemGet(items[ItemRef(c)], field))
    /\ \A k \in Emitted(c) : output[k].item = items[ItemRef(c)]
    /\ Len(Issues(c)) <= Len(built[c])
    /\ \A k \in 1..Len(Issues(c)) : Stage(Issues(c)[k]) = built[c][k]
    /\ \A r \in InFlight(c) :
           /\ lists[r.meta["game_requests"]]
                  = SubSeq(built[c], Len(Issues(c)) + 1, Len(built[c]))
           /\ \A s \in scheduled :
                  s.chain # c =>
                      /\ s.item # r.item
                      /\ s.meta["item"] # r.item
                      /\ s.meta["game_requests"] # r.meta["game_requests"]

\* the step that answers a request changes no item object and no pending list but
\* those bound to the request, no other chain's trace and no other request
C14_Step ==
    /\ \A req \in scheduled \ scheduled' :
           /\ \A i \in 1..Len(items) : i # req.item => items'[i] = items[i]
           /\ \A q \in 1..Len(lists) :
                  q # req.meta["game_requests"] => lists'[q] = lists[q]
           /\ \A c \in Chains : c # req.chain => trace'[c] = trace[c]
           /\ \A s \in scheduled : s # req => s \in scheduled'
           /\ \A s \in scheduled' \ scheduled : s.chain = req.chain
    /\ \A c \in {d \in 1..Len(trace') : trace'[d][1].ev = "parse"} : Alone(c)'

\* C14: with the chains of several games interleaved in any order, a step of one
\* chain changes only that chain's item and pending list, and every chain's item and
\* requests are what its own events alone determine: the same as when it runs alone.
C14_EntityIsolation == [][C14_Step]_vars

\* two chains interleaved: the second got its images while the first, whose images
\* request failed, waits for its videos; only the second holds the new images
C14_Witness ==
    \E c, d \in GameChains :
        /\ c < d
        /\ Len(Answers_(c)) = 1 /\ Answers_(c)[1].ev = "error" /\ InFlight(c) # {}
        /\ Len(Answers_(d)) = 1 /\ Answers_(d)[1].got # <<>>
        /\ ItemGet(items[ItemRef(d)], "image_url") # ItemGet(items[ItemRef(c)], "image_url")

\* ------------------------------------------------------- chain: identity
\* the chain's item holds an id, every request the chain issued was addressed with
\* it, and so was every answer its callbacks merged into the item
Identified(c) ==
    LET item == items[ItemRef(c)]
    IN  /\ "bga_id" \in DOMAIN item
        /\ \A p \in 1..Len(trace[c]) :
               (IsIssue(trace[c][p]) \/ IsAnswer(trace[c][p])) =>
                   trace[c][p].url.game_id = item["bga_id"]
        /\ \A r \in InFlight(c) : r.url.game_id = items[r.item]["bga_id"]
        /\ \A k \in 1..Len(built[c]) : built[c][k].url.game_id = item["bga_id"]

C15_Step ==
    /\ \A i \in 1..Len(items) :
           "bga_id" \in DOMAIN items[i] =>
               "bga_id" \in DOMAIN items'[i] /\ items'[i]["bga_id"] = items[i]["bga_id"]
    /\ \A c \in {d \in 1..Len(trace') : trace'[d][1].ev = "parse"} : Identified(c)'

\* C15: bga_id is set by parse and changed by no later stage, and every enrichment
\* request of a game's chain is addressed with exactly this id, so every answer is
\* merged into the item whose id its request URL names.
C15_EntityIdentity == [][C15_Step]_vars

\* two games with different ids, both past their first enrichment stage
C15_Witness ==
    \E c, d \in GameChains :
        /\ items[ItemRef(c)]["bga_id"] = "g1"
        /\ items[ItemRef(d)]["bga_id"] = "g2"
        /\ Len(Answers_(c)) >= 1 /\ Answers_(c)[1].got # <<>>
        /\ Len(Answers_(d)) >= 2

\* ------------------------------------------------------- typed items: bool
\* what a token given for a bool field stands for: <<TRUE>>, <<FALSE>>, or <<>>
\* when the token is not recognized
TokenOf(value) ==
    CASE value.k = "true"                    -> <<TRUE>>
      [] value.k = "false"                   -> <<FALSE>>
      [] value.k = "int" /\ value.n = 1      -> <<TRUE>>
      [] value.k = "int" /\ value.n = 0      -> <<FALSE>>
      [] OTHER                               -> <<>>

\* parse was given a non-empty text for the bool field cooperative
BoolToken ==
    /\ op = "parse"
    /\ "cooperative" \in DOMAIN given
    /\ given["cooperative"].t = "str"
    /\ given["cooperative"] # EmptyStr

\* C16: a recognized truthy token given to parse for a bool field is stored as True
\* and serialized as 1, a falsy one as False and 0; an unrecognized token leaves the
\* field None, serialized as None (absent); parse does not fail on account of the
\* field and stores nothing in it that is not a bool or None.
C16_BoolRoundTrip ==
    BoolToken =>
        LET token == TokenOf(given["cooperative"])
        IN  /\ status # "ok" => Failing(given) \ {"cooperative"} # {}
            /\ status = "ok" =>
                   /\ "cooperative" \in DOMAIN article
                   /\ article["cooperative"] = IF token = <<>> THEN None ELSE PyBool(token[1])
                   /\ _serialize_bool(article["cooperative"])
                          = IF token = <<>> THEN None
                            ELSE IF token[1] THEN PyInt(1) ELSE PyInt(0)

\* the token 0 was stored as False, to be serialized as 0
C16_Witness ==
    /\ BoolToken
    /\ status = "ok"
    /\ given["cooperative"] = Text("int", 0)
    /\ article["cooperative"] = PyBool(FALSE)

\* ------------------------------------------------- chain: failed stages
\* the step is the answer to req by a failure or by a response whose body does not
\* parse
AnsweredWithout(req) ==
    Deliver(req, Failure(req.meta)) \/ Deliver(req, GarbledResponse(req.meta))

\* no item has changed in any field
ItemsKept == items' = items

\* the callback went on with the list bound to the request: it popped the head and
\* returned the request for it, with the same item and list, or, the list being
\* empty, returned the item; no other list changed
QueueAdvanced(req) ==
    LET q   == req.meta["game_requests"]
        new == scheduled' \ scheduled
    IN  /\ \A p \in 1..Len(lists) : p # q => lists'[p] = lists[p]
        /\ Len(lists') = Len(lists)
        /\ IF lists[q] = <<>>
           THEN /\ lists'[q] = <<>>
                /\ new = {}
                /\ Len(output') = Len(output) + 1
                /\ output'[Len(output')].item = items[req.item]
           ELSE /\ lists'[q] = Tail(lists[q])
                /\ output' = output
                /\ Cardinality(new) = 1
                /\ \A n \in new :
                       /\ [url |-> n.url, callback |-> n.callback] = Head(lists[q])
                       /\ n.item = req.item
                       /\ n.meta = req.meta

C17_Step == \A req \in scheduled : AnsweredWithout(req) => ItemsKept /\ QueueAdvanced(req)

C17_StepAsStated ==
    \A req \in scheduled :
        AnsweredWithout(req) => ItemsKept /\ lists'[req.meta["game_requests"]]
                                                = lists[req.meta["game_requests"]]

\* C17 (as amended): a stage whose request failed or whose body is not parsable
\* contributes no candidates: after its callback ran every field of the item has
\* the value it had before, the stage's own list field included; the callback goes
\* on with exactly the list that was bound to the request, popping its head for the
\* next request, so that the remaining queue is the bound one less its head, or,
\* that list being empty, returns the item.
C17_FailedStageFrame == [][C17_Step]_vars

\* C17 (as stated): after the callback of such a stage ran, every field of the item
\* has the value it had before and the remaining queue is the same as the one bound
\* to the request.
C17_QueueUnchanged == [][C17_StepAsStated]_vars

\* the images response of a game that already had an image did not parse, the item
\* kept its image, and the videos request is out
C17_Witness ==
    \E c \in GameChains :
        /\ trace[c][1].got = <<"i1">>
        /\ Len(Answers_(c)) = 1
        /\ Answers_(c)[1].ev = "response" /\ Answers_(c)[1].got = <<>>
        /\ Answers_(c)[1].callback = "parse_images"
        /\ \E r \in InFlight(c) :
               r.callback = "parse_videos" /\ items[r.item]["image_url"] = <<"i1">>

\* ------------------------------------------------- chain: the queue built
\* the kinds of enrichment in their order, with the setting, the API path and the
\* callback of each
Kinds == <<"images", "videos", "reviews">>

Enabled(k) ==
    CASE Kinds[k] = "images"  -> settings.scrape_images
      [] Kinds[k] = "videos"  -> settings.scrape_videos
      [] Kinds[k] = "reviews" -> settings.scrape_reviews

KindOf(entry) ==
    CHOOSE k \in 1..Len(Kinds) :
        /\ entry.callback = "parse_" \o Kinds[k]
        /\ entry.url.path = "game/" \o Kinds[k]

\* C18: the queue parse builds for a game holds one entry per enabled kind and
\* nothing else, in the order images, videos, reviews, each entry pairing the
\* kind's URL for this game with the kind's own callback; with all three kinds
\* disabled the queue is empty and parse returns the item itself.
C18_QueueBuilt ==
    \A c \in GameChains :
        LET queue == built[c]
        IN  /\ \A i \in 1..Len(queue) :
                   /\ \E k \in 1..Len(Kinds) :
                          /\ queue[i].callback = "parse_" \o Kinds[k]
                          /\ queue[i].url.path = "game/" \o Kinds[k]
                          /\ Enabled(k)
                   /\ queue[i].url.game_id = items[ItemRef(c)]["bga_id"]
            /\ \A i, j \in 1..Len(queue) : i < j => KindOf(queue[i]) < KindOf(queue[j])
            /\ \A k \in 1..Len(Kinds) :
                   Enabled(k) => \E i \in 1..Len(queue) : KindOf(queue[i]) = k
            /\ (\A k \in 1..Len(Kinds) : ~Enabled(k)) =>
                   /\ queue = <<>>
                   /\ Len(trace[c]) = 2
                   /\ IsEmit(trace[c][2])
                   /\ Finished(c)

\* images disabled: the queue of a game is its videos and its reviews
C18_Witness ==
    /\ settings = [scrape_images |-> FALSE, scrape_videos |-> TRUE, scrape_reviews |-> TRUE]
    /\ \E c \in GameChains :
           /\ Len(built[c]) = 2
           /\ built[c][1].callback = "parse_videos"
           /\ built[c][2].callback = "parse_reviews"

\* ------------------------------------------------ typed items: atomicity
\* C19 (as stated): when an assignment fails with a type error the item is
\* unchanged: the field keeps the value, or the absence, it had before the call.
C19_FailedAssignAtomic == (op = "assign" /\ status = "ValueError") => article = prior

\* -------------------------------------------------------------------- main
\* the jobs of a directory that are in one of the given states
JobsIn(dir, sts) == {t \in DOMAIN dir : dir[t] \in sts}

\* C20: an invocation of main executes at most one crawl, and none when the jobs
\* directory its _find_states met held a job whose state is "running" or more than
\* one job in a resumable state; otherwise, once it is done, it has executed one.
C20_AtMostOneCrawl ==
    \A p \in Invocations :
        /\ Len(launches[p]) <= 1
        /\ pc[p] \in {"start", "found", "failed"} => launches[p] = <<>>
        /\ pc[p] = "crawling" => Len(launches[p]) = 1
        /\ pc[p] \in {"crawling", "done"} =>
               IF \/ JobsIn(met[p], {"running"}) # {}
                  \/ Cardinality(JobsIn(met[p], RESUMABLE_STATES)) > 1
               THEN launches[p] = <<>>
               ELSE Len(launches[p]) = 1

\* an invocation that met a running job beside a resumable one is done and has
\* executed nothing
C20_Witness ==
    \E p \in Invocations :
        /\ pc[p] = "done"
        /\ JobsIn(met[p], {"running"}) # {}
        /\ JobsIn(met[p], RESUMABLE_STATES) # {}
        /\ launches[p] = <<>>

\* C21: a crawl that main launches when exactly one job met by its _find_states
\* is resumable is launched on the directory of that job; when none is resumable
\* it is launched on a new directory tagged with the current time; it is never
\* launched on the directory of a job in another state.
C21_LaunchTarget ==
    [][\A p \in Invocations :
          (Decide(p) /\ launches'[p] # <<>>) =>
              LET job_tag   == launches'[p][1]
                  resumable == JobsIn(met[p], RESUMABLE_STATES)
              IN  /\ Cardinality(resumable) = 1 => job_tag \in resumable
                  /\ resumable = {} => (job_tag = clock /\ job_tag \notin DOMAIN jobs)
                  /\ job_tag \in JobsIn(jobs, CrawlStates \ {""}) =>
                         jobs[job_tag] \in RESUMABLE_STATES]_vars

\* C22: the call of _find_states in main deletes exactly the jobs whose state is
\* "finished"; when it returns, it returns exactly the other jobs that have a
\* non-empty state, each with its state; a running or resumable job is never
\* deleted and a deleted job is never reported.
C22_FindStatesExact ==
    [][\A p \in Invocations :
          FindStates(p) =>
              LET deleted == JobsIn(jobs, {"finished"})
                  stated  == JobsIn(jobs, CrawlStates \ {"", "finished"})
              IN  /\ jobs' = Without(jobs, deleted)
                  /\ pc'[p] = "found" => states'[p] = [t \in stated |-> jobs[t]]
                  /\ JobsIn(jobs, {"running"} \cup RESUMABLE_STATES) \subseteq DOMAIN jobs'
                  /\ DOMAIN states'[p] \subseteq DOMAIN jobs']_vars

\* C23: two invocations of main whose crawls are under way at the same time have
\* not launched them on the same job directory.
C23_NoSharedJobDir ==
    \A p, q \in Invocations :
        (p # q /\ pc[p] = "crawling" /\ pc[q] = "crawling") => launches[p] # launches[q]

====
